---- MODULE Spec2Model ----
(***************************************************************************)
(* Control center of the edge/Kubernetes deployment system.                *)
(*                                                                         *)
(* Two builds of the control center exist: the agent (heartbeat) variant   *)
(* (src/unnamed/part_001) and the cluster variant                          *)
(* (src/control-center/main.go).  A process runs exactly one of them; the  *)
(* variable `variant` records which one.  Both builds share the            *)
(* DeploymentStore code (Create, ListForAgent or ListForCluster); the       *)
(* ledger is modelled once.                                                *)
(*                                                                         *)
(* Strings that name things (ids) are modelled as pairs <<text, n>>: a     *)
(* UUID string is <<first 8 hex characters, the remaining characters>>.    *)
(***************************************************************************)
EXTENDS Integers, Sequences, FiniteSets, TLC

VARIABLES
    variant,      \* which build runs: "agent" or "cluster"
    now,          \* wall clock, seconds (time.Now())
    uuidCount,    \* uuid generator history: 8-hex prefix -> UUIDs issued with it
    agents,       \* AgentStore.agents: id -> Agent record
    clusters,     \* ClusterStore.clusters: id -> Cluster record
    heap,         \* the Deployment records allocated so far (index = pointer)
    deployments,  \* DeploymentStore.deployments: deployment id -> pointer
    arrays,       \* backing arrays of the slices: array reference -> elements
    byOwner,      \* DeploymentStore.byAgent / byCluster: owner id -> slice header
    dispatch,     \* per dispatched deployment: the goroutine running deployToK8s
    regLock,      \* AgentStore / ClusterStore mutex: 0 or the handler holding it
    ledLock,      \* DeploymentStore mutex: 0 or the handler holding it
    pc,           \* per handler goroutine: its position
    req,          \* per handler goroutine: the decoded request
    loc,          \* per handler goroutine: its local variables
    resp          \* per handler goroutine: the error response written by http.Error

vars == <<variant, now, uuidCount, agents, clusters, heap, deployments, arrays,
          byOwner, dispatch, regLock, ledLock, pc, req, loc, resp>>

----------------------------------------------------------------------------
(* Bounds of the model *)

MaxUUIDs == 2

(* Program constants *)

Window == 45

(* Input domains *)

Procs == {1, 2}
Instants == {0, Window, Window + 1}
PrefixSeq == <<"0a1b2c3d", "4e5f6a7b">>
TargetPrefix == "9f8e7d6c"
Prefixes == {PrefixSeq[i] : i \in 1..Len(PrefixSeq)} \cup {TargetPrefix}
Addresses == {"agent-1:9090"}
Names == {"prod"}
Kubeconfigs == {"b64(kubeconfig)", "b64(kubeconfig, bad host)", "b64(garbage)",
                "not base64!"}
Images == {"nginx:latest"}

EmptyId == <<"", 0>>
UnknownId == <<"X", 0>>
NoProc == 0
NoDep == 0

----------------------------------------------------------------------------
(* uuid.New(): a fresh random UUID.  Only its first 8 hex characters are   *)
(* chosen here; the rest is the canonical next unused remainder, so that   *)
(* two UUIDs are always different while their prefixes may coincide.       *)

NewUUID(pre) == <<pre, uuidCount[pre] + 1>>

(* The prefixes the UUID of a new deployment may carry: one already issued *)
(* to a deployment (a prefix collision) or the next one never issued; the  *)
(* hex digits themselves are interchangeable.  The program never reads the *)
(* prefix of a target's UUID, so one prefix stands for all of them.        *)
FreshPrefixes ==
    {PrefixSeq[i] : i \in {k \in 1..Len(PrefixSeq) :
                              \A j \in 1..(k - 1) : uuidCount[PrefixSeq[j]] > 0}}

UUIDIssued(pre) == [uuidCount EXCEPT ![pre] = @ + 1]

RECURSIVE SumCounts(_)
SumCounts(S) ==
    IF S = {} THEN 0
    ELSE LET x == CHOOSE y \in S : TRUE IN uuidCount[x] + SumCounts(S \ {x})

(* uuid.String()[:8] *)
First8(u) == u[1]

(* fmt.Sprintf("dep-%s", ...) *)
DepID(u) == <<"dep-", First8(u)>>

----------------------------------------------------------------------------
(* Go slices: a header (array reference, len, cap) over a backing array.   *)

NoArray == [kind |-> "nil", owner |-> EmptyId, proc |-> NoProc, cap |-> 0]
NilSlice == [arr |-> NoArray, len |-> 0, cap |-> 0]

LedgerArray(owner, cap) == [kind |-> "ledger", owner |-> owner, proc |-> NoProc, cap |-> cap]
RequestArray(p, cap) == [kind |-> "request", owner |-> EmptyId, proc |-> p, cap |-> cap]

(* s.byAgent[id] / s.byCluster[id]: a missing key reads as the nil slice *)
(* and does not insert the key.                                          *)
IndexOf(owner) == IF owner \in DOMAIN byOwner THEN byOwner[owner] ELSE NilSlice

(* the elements a slice shows: positions 1..len of its backing array *)
Elems(arrs, s) == [i \in 1..s.len |-> arrs[s.arr][i]]

(* runtime growslice for a one-element append to a full slice of pointers *)
GrownCap(cap) == IF cap = 0 THEN 1 ELSE 2 * cap

Put(f, k, v) == [x \in DOMAIN f \cup {k} |-> IF x = k THEN v ELSE f[x]]

(* garbage collection: the backing arrays still referenced by the index or *)
(* by a handler's local slice                                              *)
Collect(arrs, index, locals) ==
    [a \in {x \in DOMAIN arrs :
              \/ \E o \in DOMAIN index : index[o].arr = x
              \/ \E q \in Procs : locals[q].deps.arr = x} |-> arrs[a]]

----------------------------------------------------------------------------
(* Handler goroutines: one per in-flight HTTP request.  A store operation  *)
(* that does all its work between Lock and the deferred Unlock is one      *)
(* step, taken when the mutex is free; Heartbeat and List, which write     *)
(* more than once under the mutex, hold it across their steps.             *)

NoReq == [kind |-> "none", decoded |-> FALSE, id |-> EmptyId, text |-> "",
          kubeconfig |-> "", image |-> ""]
NoLoc == [id |-> EmptyId, ok |-> FALSE, dep |-> NoDep, deps |-> NilSlice,
          todo |-> {}, list |-> {}]
NoResp == [code |-> 0, body |-> ""]

(* http.Error(w, msg, code) *)
ErrorResp(code, msg) == [code |-> code, body |-> msg]

Init ==
    /\ variant \in {"agent", "cluster"}
    /\ now = 0
    /\ uuidCount = [pre \in Prefixes |-> 0]
    /\ agents = <<>>
    /\ clusters = <<>>
    /\ heap = <<>>
    /\ deployments = <<>>
    /\ arrays = <<>>
    /\ byOwner = <<>>
    /\ dispatch = <<>>
    /\ regLock = NoProc
    /\ ledLock = NoProc
    /\ pc = [p \in Procs |-> "idle"]
    /\ req = [p \in Procs |-> NoReq]
    /\ loc = [p \in Procs |-> NoLoc]
    /\ resp = [p \in Procs |-> NoResp]

ledgerVars == <<heap, deployments, arrays, byOwner>>
registryVars == <<agents, clusters>>

(* the clock advances between any two steps; the instants at which steps  *)
(* happen are sampled around the liveness window                           *)
Tick ==
    /\ \E t \in Instants :
        /\ t > now
        /\ now' = t
    /\ UNCHANGED <<variant, uuidCount, agents, clusters, heap, deployments, arrays,
                   byOwner, dispatch, regLock, ledLock, pc, req, loc, resp>>

(* the handler has written its response and returns: the goroutine ends *)
Finish(p) ==
    /\ pc' = [pc EXCEPT ![p] = "idle"]
    /\ req' = [req EXCEPT ![p] = NoReq]
    /\ loc' = [loc EXCEPT ![p] = NoLoc]
    /\ resp' = [resp EXCEPT ![p] = NoResp]
    /\ arrays' = Collect(arrays, byOwner, [loc EXCEPT ![p] = NoLoc])

(* http.Error(...); return: the request is answered with an error *)
Reject(p, r, code, msg) ==
    /\ pc' = [pc EXCEPT ![p] = "rejected"]
    /\ req' = [req EXCEPT ![p] = r]
    /\ resp' = [resp EXCEPT ![p] = ErrorResp(code, msg)]
    /\ UNCHANGED <<loc, uuidCount, agents, clusters, heap, deployments, arrays,
                   byOwner, dispatch, regLock, ledLock>>

(* the error response has been written; the handler returns *)
Rejected(p) ==
    /\ pc[p] = "rejected"
    /\ Finish(p)
    /\ UNCHANGED <<variant, now, uuidCount, agents, clusters, heap, deployments,
                   byOwner, dispatch, regLock, ledLock>>

(* creations that hold a target and wait for the ledger *)
Creating == {p \in Procs : pc[p] = "create"}

(* room for one more uuid.New() within the bound *)
UUIDBudget == SumCounts(Prefixes) + Cardinality(Creating) < MaxUUIDs

----------------------------------------------------------------------------
(* AgentStore (agent variant, src/unnamed/part_001) *)

RegisterAgentByAddress(id, addr) ==
    Put(agents, <<addr, 0>>,
        [ID |-> id, Address |-> addr, LastSeen |-> now, Status |-> "online"])

RegisterAgentOffline(id, addr) ==
    Put(agents, id, [ID |-> id, Address |-> addr, LastSeen |-> now, Status |-> "offline"])

(* Register, lines 102-109: the new content of s.agents *)
RegisterAgent(id, addr) ==
    Put(agents, id, [ID |-> id, Address |-> addr, LastSeen |-> now, Status |-> "online"])

(* Heartbeat, line 119: agent, exists := s.agents[id] *)
HeartbeatExists(id) == id \in DOMAIN agents

HeartbeatLastSeenAll(id) == [a \in DOMAIN agents |-> [agents[a] EXCEPT !.LastSeen = now]]

(* Heartbeat, line 123: agent.LastSeen = time.Now().UTC() *)
HeartbeatLastSeen(id) == [agents EXCEPT ![id].LastSeen = now]

HeartbeatStatusKept(id) == agents

(* Heartbeat, line 124: agent.Status = "online" *)
HeartbeatStatus(id) == [agents EXCEPT ![id].Status = "online"]

MissedHeartbeatsNoUnit(agent) == now - agent.LastSeen > 0

(* List, line 137: time.Since(agent.LastSeen) > 45*time.Second *)
MissedHeartbeats(agent) == now - agent.LastSeen > Window

MarkAgentInclusive(id) ==
    IF now - agents[id].LastSeen >= Window
    THEN [agents EXCEPT ![id].Status = "offline"]
    ELSE agents

(* List, lines 137-139: one iteration of the status loop *)
MarkAgent(id) ==
    IF MissedHeartbeats(agents[id])
    THEN [agents EXCEPT ![id].Status = "offline"]
    ELSE agents

(* json.NewEncoder(w).Encode(agents): the records are read when encoded *)
EncodeAgents(list) == [id \in list |-> agents[id]]

RegisterBodies ==
    {[NoReq EXCEPT !.kind = "POST /agents"]}
    \cup {[NoReq EXCEPT !.kind = "POST /agents", !.decoded = TRUE, !.text = a]
            : a \in Addresses \cup {""}}

(* Register, lines 98-112 *)
Register(p, r) ==
    /\ regLock = NoProc
    /\ UUIDBudget
    /\ \E pre \in {TargetPrefix} :
        /\ agents' = RegisterAgent(NewUUID(pre), r.text)
        /\ uuidCount' = UUIDIssued(pre)
        /\ loc' = [loc EXCEPT ![p].id = NewUUID(pre)]
    /\ pc' = [pc EXCEPT ![p] = "reg_resp"]
    /\ req' = [req EXCEPT ![p] = r]
    /\ UNCHANGED <<clusters, heap, deployments, arrays, byOwner, dispatch, regLock,
                   ledLock, resp>>

(* POST /api/v1/agents, lines 202-212 *)
PostAgents(p) ==
    /\ variant = "agent"
    /\ pc[p] = "idle"
    /\ \E r \in RegisterBodies :
        IF ~r.decoded THEN Reject(p, r, 400, "Invalid request body")
        ELSE IF r.text = "" THEN Reject(p, r, 400, "Address is required")
        ELSE Register(p, r)
    /\ UNCHANGED <<variant, now>>

(* POST /api/v1/agents, lines 213-214: the response *)
RegisterResponse(p) == [code |-> 201, body |-> agents[loc[p].id]]

RegisterRespond(p) ==
    /\ pc[p] = "reg_resp"
    /\ Finish(p)
    /\ UNCHANGED <<variant, now, uuidCount, agents, clusters, heap, deployments,
                   byOwner, dispatch, regLock, ledLock>>

HeartbeatBodies ==
    {[NoReq EXCEPT !.kind = "POST /heartbeat"]}
    \cup {[NoReq EXCEPT !.kind = "POST /heartbeat", !.decoded = TRUE, !.id = i]
            : i \in DOMAIN agents \cup {UnknownId}}

(* Heartbeat, lines 116-123: Lock and the lookup; unknown: return false    *)
(* (and the deferred Unlock); known: the LastSeen write                    *)
HeartbeatSeen(p, r) ==
    /\ regLock = NoProc
    /\ IF HeartbeatExists(r.id)
       THEN /\ agents' = HeartbeatLastSeen(r.id)
            /\ regLock' = p
            /\ pc' = [pc EXCEPT ![p] = "hb_status"]
            /\ UNCHANGED loc
       ELSE /\ loc' = [loc EXCEPT ![p].ok = FALSE]
            /\ pc' = [pc EXCEPT ![p] = "hb_resp"]
            /\ UNCHANGED <<agents, regLock>>
    /\ req' = [req EXCEPT ![p] = r]
    /\ UNCHANGED <<uuidCount, clusters, heap, deployments, arrays, byOwner, dispatch,
                   ledLock, resp>>

(* /api/v1/heartbeat, lines 223-232 *)
PostHeartbeat(p) ==
    /\ variant = "agent"
    /\ pc[p] = "idle"
    /\ \E r \in HeartbeatBodies :
        IF ~r.decoded THEN Reject(p, r, 400, "Invalid request body")
        ELSE HeartbeatSeen(p, r)
    /\ UNCHANGED <<variant, now>>

(* Heartbeat, lines 124-126: agent.Status = "online"; return true (and the *)
(* deferred Unlock)                                                        *)
HeartbeatOnline(p) ==
    /\ pc[p] = "hb_status"
    /\ agents' = HeartbeatStatus(req[p].id)
    /\ loc' = [loc EXCEPT ![p].ok = TRUE]
    /\ regLock' = NoProc
    /\ pc' = [pc EXCEPT ![p] = "hb_resp"]
    /\ UNCHANGED <<variant, now, uuidCount, clusters, heap, deployments, arrays,
                   byOwner, dispatch, ledLock, req, resp>>

(* /api/v1/heartbeat, lines 232-236: the response *)
HeartbeatResponse(p) ==
    IF loc[p].ok THEN [code |-> 200, body |-> ""]
    ELSE ErrorResp(404, "Agent not found")

HeartbeatRespond(p) ==
    /\ pc[p] = "hb_resp"
    /\ Finish(p)
    /\ UNCHANGED <<variant, now, uuidCount, agents, clusters, heap, deployments,
                   byOwner, dispatch, regLock, ledLock>>

(* GET /api/v1/agents, line 200; List, line 131: s.Lock(); the status loop *)
(* ranges over s.agents                                                    *)
GetAgents(p) ==
    /\ variant = "agent"
    /\ pc[p] = "idle"
    /\ regLock = NoProc
    /\ regLock' = p
    /\ loc' = [loc EXCEPT ![p].todo = DOMAIN agents]
    /\ pc' = [pc EXCEPT ![p] = "list_cs"]
    /\ req' = [req EXCEPT ![p] = [NoReq EXCEPT !.kind = "GET /agents"]]
    /\ UNCHANGED <<variant, now, uuidCount, agents, clusters, heap, deployments,
                   arrays, byOwner, dispatch, ledLock, resp>>

(* List, lines 136-140: one iteration, in map order (any order) *)
ListMark(p) ==
    /\ pc[p] = "list_cs"
    /\ \E id \in loc[p].todo :
        /\ agents' = MarkAgent(id)
        /\ loc' = [loc EXCEPT ![p].todo = @ \ {id}]
    /\ UNCHANGED <<variant, now, uuidCount, clusters, heap, deployments, arrays,
                   byOwner, dispatch, regLock, ledLock, pc, req, resp>>

(* List, lines 142-146: the list of pointers, and the deferred Unlock *)
ListReturn(p) ==
    /\ pc[p] = "list_cs"
    /\ loc[p].todo = {}
    /\ loc' = [loc EXCEPT ![p].list = DOMAIN agents]
    /\ regLock' = NoProc
    /\ pc' = [pc EXCEPT ![p] = "list_resp"]
    /\ UNCHANGED <<variant, now, uuidCount, agents, clusters, heap, deployments,
                   arrays, byOwner, dispatch, ledLock, req, resp>>

(* GET /api/v1/agents, line 201: the response *)
ListResponse(p) == [code |-> 200, body |-> EncodeAgents(loc[p].list)]

ListRespond(p) ==
    /\ pc[p] = "list_resp"
    /\ Finish(p)
    /\ UNCHANGED <<variant, now, uuidCount, agents, clusters, heap, deployments,
                   byOwner, dispatch, regLock, ledLock>>

----------------------------------------------------------------------------
(* ClusterStore (cluster variant, src/control-center/main.go) *)

AddClusterKubeconfigDropped(id, name, kubeconfig) ==
    Put(clusters, id, [ID |-> id, Name |-> name, Kubeconfig |-> ""])

(* Add, lines 104-110: the new content of s.clusters *)
AddCluster(id, name, kubeconfig) ==
    Put(clusters, id, [ID |-> id, Name |-> name, Kubeconfig |-> kubeconfig])

GetExistsUnchecked(id) == TRUE

(* Get, line 119: cluster, exists := s.clusters[id] *)
GetExists(id) == id \in DOMAIN clusters

(* json.NewEncoder(w).Encode(clusters) *)
EncodeClusters(list) == [id \in list |-> clusters[id]]

AddBodies ==
    {[NoReq EXCEPT !.kind = "POST /clusters"]}
    \cup {[NoReq EXCEPT !.kind = "POST /clusters", !.decoded = TRUE, !.text = n,
                        !.kubeconfig = k]
            : n \in Names, k \in Kubeconfigs \cup {""}}
    \cup {[NoReq EXCEPT !.kind = "POST /clusters", !.decoded = TRUE, !.text = "",
                        !.kubeconfig = k]
            : k \in {CHOOSE k \in Kubeconfigs : TRUE}}

(* Add, lines 100-113 *)
Add(p, r) ==
    /\ regLock = NoProc
    /\ UUIDBudget
    /\ \E pre \in {TargetPrefix} :
        /\ clusters' = AddCluster(NewUUID(pre), r.text, r.kubeconfig)
        /\ uuidCount' = UUIDIssued(pre)
        /\ loc' = [loc EXCEPT ![p].id = NewUUID(pre)]
    /\ pc' = [pc EXCEPT ![p] = "add_resp"]
    /\ req' = [req EXCEPT ![p] = r]
    /\ UNCHANGED <<agents, heap, deployments, arrays, byOwner, dispatch, regLock,
                   ledLock, resp>>

(* POST /api/v1/clusters, lines 262-272 *)
PostClusters(p) ==
    /\ variant = "cluster"
    /\ pc[p] = "idle"
    /\ \E r \in AddBodies :
        IF ~r.decoded THEN Reject(p, r, 400, "Invalid request body")
        ELSE IF r.text = "" \/ r.kubeconfig = ""
        THEN Reject(p, r, 400, "Name and kubeconfig are required")
        ELSE Add(p, r)
    /\ UNCHANGED <<variant, now>>

(* POST /api/v1/clusters, lines 273-274: the response *)
AddResponse(p) == [code |-> 201, body |-> clusters[loc[p].id]]

AddRespond(p) ==
    /\ pc[p] = "add_resp"
    /\ Finish(p)
    /\ UNCHANGED <<variant, now, uuidCount, agents, clusters, heap, deployments,
                   byOwner, dispatch, regLock, ledLock>>

(* GET /api/v1/clusters, line 260; List, lines 124-132 *)
GetClusters(p) ==
    /\ variant = "cluster"
    /\ pc[p] = "idle"
    /\ regLock = NoProc
    /\ loc' = [loc EXCEPT ![p].list = DOMAIN clusters]
    /\ pc' = [pc EXCEPT ![p] = "cl_resp"]
    /\ req' = [req EXCEPT ![p] = [NoReq EXCEPT !.kind = "GET /clusters"]]
    /\ UNCHANGED <<variant, now, uuidCount, agents, clusters, heap, deployments,
                   arrays, byOwner, dispatch, regLock, ledLock, resp>>

(* GET /api/v1/clusters, line 261: the response *)
ClustersResponse(p) == [code |-> 200, body |-> EncodeClusters(loc[p].list)]

ClustersRespond(p) ==
    /\ pc[p] = "cl_resp"
    /\ Finish(p)
    /\ UNCHANGED <<variant, now, uuidCount, agents, clusters, heap, deployments,
                   byOwner, dispatch, regLock, ledLock>>

----------------------------------------------------------------------------
(* DeploymentStore (both variants: src/control-center/main.go:52-77, and   *)
(* the same code at src/unnamed/part_001:48-74)                            *)

NewDeploymentOwnerDropped(u, owner, image) ==
    [ID |-> DepID(u), Owner |-> EmptyId, ImageURL |-> image, Status |-> "pending",
     CreatedAt |-> now]

(* Create, lines 56-62: the record built for a new deployment *)
NewDeployment(u, owner, image) ==
    [ID |-> DepID(u), Owner |-> owner, ImageURL |-> image, Status |-> "pending",
     CreatedAt |-> now]

(* Create, line 63: s.deployments[dep.ID] = dep *)
StoreDeployment(id, ptr) == Put(deployments, id, ptr)

AppendArraysPrepended(owner, ptr) ==
    LET cur == IndexOf(owner)
        shifted(n) == [i \in 1..n |->
                         IF i = 1 THEN ptr
                         ELSE IF i <= cur.len + 1 THEN arrays[cur.arr][i - 1] ELSE NoDep]
    IN  IF cur.len < cur.cap
        THEN [arrays EXCEPT ![cur.arr] = shifted(cur.cap)]
        ELSE Put(arrays, LedgerArray(owner, GrownCap(cur.cap)), shifted(GrownCap(cur.cap)))

(* Create, line 64: append(s.byCluster[clusterID], dep), the backing arrays *)
AppendArrays(owner, ptr) ==
    LET cur == IndexOf(owner) IN
    IF cur.len < cur.cap
    THEN [arrays EXCEPT ![cur.arr][cur.len + 1] = ptr]
    ELSE Put(arrays, LedgerArray(owner, GrownCap(cur.cap)),
             [i \in 1..GrownCap(cur.cap) |->
                IF i <= cur.len THEN arrays[cur.arr][i]
                ELSE IF i = cur.len + 1 THEN ptr ELSE NoDep])

AppendHeaderLenKept(owner) ==
    LET cur == IndexOf(owner) IN
    [arr |-> LedgerArray(owner, GrownCap(cur.cap)), len |-> cur.len,
     cap |-> GrownCap(cur.cap)]

(* Create, line 64: append(s.byCluster[clusterID], dep), the slice header *)
AppendHeader(owner) ==
    LET cur == IndexOf(owner) IN
    IF cur.len < cur.cap
    THEN [cur EXCEPT !.len = @ + 1]
    ELSE [arr |-> LedgerArray(owner, GrownCap(cur.cap)), len |-> cur.len + 1,
          cap |-> GrownCap(cur.cap)]

StoreIndexKnownOnly(owner) ==
    IF owner \in DOMAIN agents \cup DOMAIN clusters
    THEN Put(byOwner, owner, AppendHeader(owner))
    ELSE byOwner

(* Create, line 64: s.byCluster[clusterID] = ... *)
StoreIndex(owner) == Put(byOwner, owner, AppendHeader(owner))

MakeDepsAliased(p, owner) == IndexOf(owner)

(* ListForCluster, line 74: make([]*Deployment, len(s.byCluster[clusterID])) *)
MakeDeps(p, owner) ==
    [arr |-> RequestArray(p, IndexOf(owner).len), len |-> IndexOf(owner).len,
     cap |-> IndexOf(owner).len]

(* ListForCluster, line 75: copy(deps, s.byCluster[clusterID]) *)
CopyDeps(deps, owner) ==
    Put(arrays, deps.arr, [i \in 1..deps.cap |-> arrays[IndexOf(owner).arr][i]])

IndexReadInserts(owner) == Put(byOwner, owner, IndexOf(owner))

(* ListForCluster, lines 74-75: reading s.byCluster[clusterID] leaves the  *)
(* map as it is, also for a key it does not hold                           *)
IndexRead(owner) == byOwner

(* json.NewEncoder(w).Encode(deps): the records are read when encoded *)
EncodeDeps(deps) == [i \in 1..deps.len |-> heap[arrays[deps.arr][i]]]

(* Create, lines 52-68 *)
Create(p, owner, image, next) ==
    /\ ledLock = NoProc
    /\ \E pre \in FreshPrefixes :
        /\ heap' = Append(heap, NewDeployment(NewUUID(pre), owner, image))
        /\ deployments' = StoreDeployment(DepID(NewUUID(pre)), Len(heap) + 1)
        /\ uuidCount' = UUIDIssued(pre)
    /\ byOwner' = StoreIndex(owner)
    /\ arrays' = Collect(AppendArrays(owner, Len(heap) + 1), byOwner', loc)
    /\ loc' = [loc EXCEPT ![p].dep = Len(heap) + 1]
    /\ pc' = [pc EXCEPT ![p] = next]
    /\ UNCHANGED <<agents, clusters, dispatch, regLock, ledLock, resp>>

(* ListForCluster, lines 71-77 *)
ListFor(p, r) ==
    /\ ledLock = NoProc
    /\ loc' = [loc EXCEPT ![p].deps = MakeDeps(p, r.id)]
    /\ arrays' = CopyDeps(MakeDeps(p, r.id), r.id)
    /\ byOwner' = IndexRead(r.id)
    /\ pc' = [pc EXCEPT ![p] = "deps_resp"]
    /\ req' = [req EXCEPT ![p] = r]
    /\ UNCHANGED <<uuidCount, agents, clusters, heap, deployments, dispatch,
                   regLock, ledLock, resp>>

(* the target ids a client names: registered ones and an unknown one *)
TargetIds == DOMAIN agents \cup DOMAIN clusters \cup {UnknownId}

DeploymentBodies ==
    {[NoReq EXCEPT !.kind = "POST /deployments"]}
    \cup {[NoReq EXCEPT !.kind = "POST /deployments", !.decoded = TRUE, !.id = i,
                        !.image = img]
            : i \in TargetIds, img \in Images}
    \cup {[NoReq EXCEPT !.kind = "POST /deployments", !.decoded = TRUE, !.id = EmptyId,
                        !.image = img]
            : img \in Images}
    \cup {[NoReq EXCEPT !.kind = "POST /deployments", !.decoded = TRUE, !.id = UnknownId]}

ListQueries ==
    {[NoReq EXCEPT !.kind = "GET /deployments", !.decoded = TRUE, !.id = i]
        : i \in TargetIds \cup {EmptyId}}

DeploymentInvalidImageUnchecked(r) == r.id = EmptyId

(* POST /api/v1/deployments, line 225 (part_001:180): a required field is  *)
(* missing                                                                 *)
DeploymentInvalid(r) == r.id = EmptyId \/ r.image = ""

(* agent variant: POST /api/v1/deployments, part_001 lines 174-185 *)
PostDeploymentsAgent(p) ==
    /\ variant = "agent"
    /\ pc[p] = "idle"
    /\ \E r \in DeploymentBodies :
        IF ~r.decoded THEN Reject(p, r, 400, "Invalid request body")
        ELSE IF DeploymentInvalid(r)
        THEN Reject(p, r, 400, "agent_id and image_url are required")
        ELSE /\ UUIDBudget
             /\ Create(p, r.id, r.image, "dep_resp")
             /\ req' = [req EXCEPT ![p] = r]
    /\ UNCHANGED <<variant, now>>

(* cluster variant: POST /api/v1/deployments, lines 219-234, with          *)
(* ClusterStore.Get, lines 116-121                                         *)
PostDeploymentsCluster(p) ==
    /\ variant = "cluster"
    /\ pc[p] = "idle"
    /\ \E r \in DeploymentBodies :
        IF ~r.decoded THEN Reject(p, r, 400, "Invalid request body")
        ELSE IF DeploymentInvalid(r)
        THEN Reject(p, r, 400, "cluster_id and image_url are required")
        ELSE /\ regLock = NoProc
             /\ IF ~GetExists(r.id) THEN Reject(p, r, 404, "Cluster not found")
                ELSE /\ UUIDBudget
                     /\ pc' = [pc EXCEPT ![p] = "create"]
                     /\ req' = [req EXCEPT ![p] = r]
                     /\ loc' = [loc EXCEPT ![p].id = r.id]
                     /\ UNCHANGED <<uuidCount, agents, clusters, heap, deployments,
                                    arrays, byOwner, dispatch, regLock, ledLock, resp>>
    /\ UNCHANGED <<variant, now>>

(* cluster variant: POST /api/v1/deployments, line 236 *)
CreateForCluster(p) ==
    /\ pc[p] = "create"
    /\ Create(p, req[p].id, req[p].image, "dep_go")
    /\ UNCHANGED <<variant, now, req>>

(* POST /api/v1/deployments, lines 246-247 (part_001:186-187): the response *)
CreateResponse(p) == [code |-> 201, body |-> heap[loc[p].dep]]

CreateRespondAfterDeploy(p) ==
    /\ pc[p] = "dep_resp"
    /\ variant = "cluster" => dispatch[loc[p].dep].state \in {"ok", "failed"}
    /\ Finish(p)
    /\ UNCHANGED <<variant, now, uuidCount, agents, clusters, heap, deployments,
                   byOwner, dispatch, regLock, ledLock>>

(* POST /api/v1/deployments, lines 246-247 (part_001:186-187): the 201     *)
(* response is written and the handler returns                             *)
CreateRespond(p) ==
    /\ pc[p] = "dep_resp"
    /\ Finish(p)
    /\ UNCHANGED <<variant, now, uuidCount, agents, clusters, heap, deployments,
                   byOwner, dispatch, regLock, ledLock>>

(* GET /api/v1/deployments, lines 211-217 (part_001:166-172) *)
GetDeployments(p) ==
    /\ pc[p] = "idle"
    /\ \E r \in ListQueries :
        IF r.id = EmptyId
        THEN Reject(p, r, 400, IF variant = "cluster"
                               THEN "cluster_id query parameter is required"
                               ELSE "agent_id query parameter is required")
        ELSE ListFor(p, r)
    /\ UNCHANGED <<variant, now>>

(* GET /api/v1/deployments, line 218 (part_001:173): the response *)
ListForResponse(p) == [code |-> 200, body |-> EncodeDeps(loc[p].deps)]

ListForRespond(p) ==
    /\ pc[p] = "deps_resp"
    /\ Finish(p)
    /\ UNCHANGED <<variant, now, uuidCount, agents, clusters, heap, deployments,
                   byOwner, dispatch, regLock, ledLock>>

----------------------------------------------------------------------------
(* Dispatch (cluster variant): one goroutine per created deployment *)

Base64Strings == {"b64(kubeconfig)", "b64(kubeconfig, bad host)", "b64(garbage)"}
KubeconfigStrings == {"b64(kubeconfig)", "b64(kubeconfig, bad host)"}
ClientConfigs == {"b64(kubeconfig)"}

(* deployToK8s, lines 143-158: the first step at which the local           *)
(* preparation fails (decode, client configuration, clientset), "none"     *)
(* when it reaches the remote call                                         *)
PrepareFailure(kubeconfig) ==
    IF kubeconfig \notin Base64Strings THEN "decode"
    ELSE IF kubeconfig \notin KubeconfigStrings THEN "config"
    ELSE IF kubeconfig \notin ClientConfigs THEN "client"
    ELSE "none"

(* lines 239-244: go func() { ... }() *)
Go(p) ==
    /\ pc[p] = "dep_go"
    /\ dispatch' = Put(dispatch, loc[p].dep,
                       [state |-> "spawned", cluster |-> loc[p].id, failedAt |-> "none"])
    /\ pc' = [pc EXCEPT ![p] = "dep_resp"]
    /\ UNCHANGED <<variant, now, uuidCount, agents, clusters, heap, deployments,
                   arrays, byOwner, regLock, ledLock, req, loc, resp>>

DeployPrepareNormalising(d) ==
    /\ dispatch[d].state = "spawned"
    /\ LET f == PrepareFailure(clusters[dispatch[d].cluster].Kubeconfig) IN
        dispatch' = [dispatch EXCEPT ![d].state = IF f = "none" THEN "calling" ELSE "failed",
                                     ![d].failedAt = f]
    /\ heap' = [heap EXCEPT ![d].ImageURL = "docker.io/library/nginx:latest"]
    /\ UNCHANGED <<variant, now, uuidCount, agents, clusters, deployments,
                   arrays, byOwner, regLock, ledLock, pc, req, loc, resp>>

DeployPrepareLocked(d) ==
    /\ dispatch[d].state = "spawned"
    /\ ledLock = NoProc
    /\ ledLock' = Cardinality(Procs) + d
    /\ LET f == PrepareFailure(clusters[dispatch[d].cluster].Kubeconfig) IN
        dispatch' = [dispatch EXCEPT ![d].state = IF f = "none" THEN "calling" ELSE "failed",
                                     ![d].failedAt = f]
    /\ UNCHANGED <<variant, now, uuidCount, agents, clusters, heap, deployments,
                   arrays, byOwner, regLock, pc, req, loc, resp>>

DeployPrepareErrIgnored(d) ==
    /\ dispatch[d].state = "spawned"
    /\ LET f == PrepareFailure(clusters[dispatch[d].cluster].Kubeconfig) IN
        dispatch' = [dispatch EXCEPT ![d].state = "calling", ![d].failedAt = f]
    /\ UNCHANGED <<variant, now, uuidCount, agents, clusters, heap, deployments,
                   arrays, byOwner, regLock, ledLock, pc, req, loc, resp>>

(* deployToK8s, lines 141-192: the goroutine starts; decode the            *)
(* kubeconfig, build the config, the clientset and the deployment object   *)
DeployPrepare(d) ==
    /\ dispatch[d].state = "spawned"
    /\ LET f == PrepareFailure(clusters[dispatch[d].cluster].Kubeconfig) IN
        dispatch' = [dispatch EXCEPT ![d].state = IF f = "none" THEN "calling" ELSE "failed",
                                     ![d].failedAt = f]
    /\ UNCHANGED <<variant, now, uuidCount, agents, clusters, heap, deployments,
                   arrays, byOwner, regLock, ledLock, pc, req, loc, resp>>

DeployCallRetried(d) ==
    /\ dispatch[d].state = "calling"
    /\ \E err \in BOOLEAN :
        dispatch' = [dispatch EXCEPT ![d].state = IF err THEN "spawned" ELSE "ok"]
    /\ UNCHANGED <<variant, now, uuidCount, agents, clusters, heap, deployments,
                   arrays, byOwner, regLock, ledLock, pc, req, loc, resp>>

DeployCallPoisoning(d) ==
    /\ dispatch[d].state = "calling"
    /\ \E err \in BOOLEAN :
        dispatch' = [x \in DOMAIN dispatch |->
                       IF err THEN [dispatch[x] EXCEPT !.state = "failed", !.failedAt = "create"]
                       ELSE IF x = d THEN [dispatch[x] EXCEPT !.state = "ok"]
                       ELSE dispatch[x]]
    /\ UNCHANGED <<variant, now, uuidCount, agents, clusters, heap, deployments,
                   arrays, byOwner, regLock, ledLock, pc, req, loc, resp>>

(* deployToK8s, lines 193-199, and lines 240-243: the remote create call   *)
(* returns, with an error or without                                       *)
DeployCall(d) ==
    /\ dispatch[d].state = "calling"
    /\ \E err \in BOOLEAN :
        dispatch' = [dispatch EXCEPT ![d].state = IF err THEN "failed" ELSE "ok",
                                     ![d].failedAt = IF err THEN "create" ELSE "none"]
    /\ UNCHANGED <<variant, now, uuidCount, agents, clusters, heap, deployments,
                   arrays, byOwner, regLock, ledLock, pc, req, loc, resp>>

----------------------------------------------------------------------------

Next ==
    \/ Tick
    \/ \E p \in Procs :
        \/ Rejected(p)
        \/ PostAgents(p) \/ RegisterRespond(p)
        \/ PostHeartbeat(p) \/ HeartbeatOnline(p) \/ HeartbeatRespond(p)
        \/ GetAgents(p) \/ ListMark(p) \/ ListReturn(p) \/ ListRespond(p)
        \/ PostClusters(p) \/ AddRespond(p)
        \/ GetClusters(p) \/ ClustersRespond(p)
        \/ PostDeploymentsAgent(p) \/ PostDeploymentsCluster(p)
        \/ CreateForCluster(p) \/ Go(p) \/ CreateRespond(p)
        \/ GetDeployments(p) \/ ListForRespond(p)
    \/ \E d \in DOMAIN dispatch : DeployPrepare(d) \/ DeployCall(d)

Spec == Init /\ [][Next]_vars

----------------------------------------------------------------------------
(* Properties *)

HoldsTarget == {p \in Procs : pc[p] \in {"reg_resp", "add_resp"}}

(* the agents and clusters a later get or list finds *)
Targets == DOMAIN agents \cup DOMAIN clusters

TargetRecord(id) == IF id \in DOMAIN agents THEN agents[id] ELSE clusters[id]

C1Step ==
    /\ \A id \in Targets :
        /\ id \in Targets'
        /\ TargetRecord(id).ID = id
        /\ TargetRecord(id)'.ID = id
    /\ \A p \in Procs :
        (p \notin HoldsTarget /\ p \in HoldsTarget') =>
            /\ loc'[p].id \notin Targets
            /\ loc'[p].id \in Targets'
            /\ TargetRecord(loc[p].id)'.ID = loc'[p].id

(* C1: every identity Register or Add returns differs from every identity *)
(* returned before, and a registered target stays in the store under that  *)
(* identity in every later step.                                           *)
C1_UniqueStableIdentity == [][C1Step]_vars

(* two targets registered, a listing that returns both under way *)
C1_Witness ==
    /\ Cardinality(DOMAIN agents) = 2
    /\ \E p \in Procs : pc[p] = "list_resp" /\ loc[p].list = DOMAIN agents


(* a Heartbeat for id has written LastSeen and not yet Status *)
MidHeartbeat(id) == \E q \in Procs : pc[q] = "hb_status" /\ req[q].id = id

(* C2: Heartbeat returns true exactly for registered ids (200, else 404),  *)
(* and a listing answered while the agent's last contact is within the     *)
(* window shows it "online", whatever its status was before the heartbeat. *)
C2_HeartbeatResult ==
    /\ \A p \in Procs : pc[p] = "hb_resp" =>
        /\ loc[p].ok <=> req[p].id \in DOMAIN agents
        /\ HeartbeatResponse(p).code = IF req[p].id \in DOMAIN agents THEN 200 ELSE 404
    /\ \A p \in Procs : pc[p] = "list_resp" =>
        \A id \in loc[p].list :
            (now - agents[id].LastSeen <= Window /\ ~MidHeartbeat(id)) =>
                ListResponse(p).body[id].Status = "online"

(* a heartbeat sent after the window had elapsed has returned true, and a  *)
(* listing shows that agent online                                         *)
C2_Witness ==
    \E q \in Procs, p \in Procs :
        /\ pc[q] = "hb_resp" /\ loc[q].ok
        /\ agents[req[q].id].LastSeen > Window
        /\ pc[p] = "list_resp" /\ req[q].id \in loc[p].list
        /\ ListResponse(p).body[req[q].id].Status = "online"

C3Within ==
    \A p \in Procs : pc[p] = "list_resp" =>
        \A id \in loc[p].list :
            (now - agents[id].LastSeen < Window /\ ~MidHeartbeat(id)) =>
                ListResponse(p).body[id].Status = "online"

C3Step ==
    /\ \A p \in Procs : pc[p] = "list_cs" =>
        \A id \in loc[p].todo \ loc'[p].todo :
            now - agents[id].LastSeen > Window => agents'[id].Status = "offline"
    /\ \A id \in DOMAIN agents :
        (agents[id].Status = "offline" /\ agents'[id].Status # "offline") =>
            \E q \in Procs : pc[q] = "hb_status" /\ pc'[q] = "hb_resp" /\ req[q].id = id

(* C3: List marks an agent whose last contact is more than 45 s old        *)
(* "offline", and it stays so until a heartbeat; a listing answered less   *)
(* than 45 s after the last contact shows "online".                        *)
C3_LivenessWindow == [](C3Within) /\ [][C3Step]_vars

(* 46 s after its last contact a listed agent is shown offline *)
C3_Witness ==
    \E p \in Procs : pc[p] = "list_resp" /\
        \E id \in loc[p].list :
            /\ now - agents[id].LastSeen > Window
            /\ ListResponse(p).body[id].Status = "offline"


(* what ListForAgent / ListForCluster returns for an owner in this state *)
Listing(owner) == Elems(arrays, IndexOf(owner))

Occurrences(seq, x) == Cardinality({i \in DOMAIN seq : seq[i] = x})

Owners == DOMAIN byOwner \cup TargetIds

HoldsDeployment == {p \in Procs : pc[p] \in {"dep_go", "dep_resp"}}

(* C4: the Deployment that Create returns has status "pending", and every  *)
(* Deployment record created so far is listed exactly once for its owner   *)
(* and not at all for any other owner.                                     *)
C4_PendingAndListedOnce ==
    /\ \A p \in HoldsDeployment :
        /\ CreateResponse(p).code = 201
        /\ CreateResponse(p).body.Status = "pending"
        /\ CreateResponse(p).body.Owner = req[p].id
    /\ \A d \in DOMAIN heap :
        /\ Occurrences(Listing(heap[d].Owner), d) = 1
        /\ \A o \in Owners \ {heap[d].Owner} : Occurrences(Listing(o), d) = 0

(* a deployment has been created and returned while another target, which *)
(* owns nothing, is registered                                             *)
C4_Witness ==
    \E p \in HoldsDeployment, o \in Targets :
        /\ o # heap[loc[p].dep].Owner
        /\ Listing(heap[loc[p].dep].Owner) = <<loc[p].dep>>
        /\ Listing(o) = <<>>

(* C5: no two Deployments created by the process carry the same id. *)
C5_UniqueDeploymentIds ==
    \A d1 \in DOMAIN heap, d2 \in DOMAIN heap : d1 # d2 => heap[d1].ID # heap[d2].ID

C6Step ==
    \A p \in Procs :
        (pc[p] = "idle" /\ pc'[p] = "deps_resp" /\ Len(Listing(req'[p].id)) = 0) =>
            /\ loc'[p].deps.len = 0
            /\ ListForResponse(p)' = [code |-> 200, body |-> <<>>]
            /\ UNCHANGED <<heap, deployments, byOwner>>
            /\ \A o \in Owners : Listing(o)' = Listing(o)

(* C6: listing an owner that has no deployments, known to the stores or    *)
(* not, answers 200 with the empty sequence and changes nothing in the     *)
(* ledger.                                                                 *)
C6_EmptyListing == [][C6Step]_vars

(* an owner the ledger has never seen is listed while the ledger holds a   *)
(* deployment of another owner                                             *)
C6_Witness ==
    \E p \in Procs :
        /\ pc[p] = "deps_resp"
        /\ req[p].id \notin DOMAIN byOwner
        /\ loc[p].deps.len = 0
        /\ Len(heap) > 0

HoldsListing == {p \in Procs : pc[p] = "deps_resp"}

(* the slice a caller got from ListFor shares its backing array with       *)
(* nothing: not with the index, not with another caller's slice            *)
NoAlias ==
    \A p \in HoldsListing :
        /\ \A o \in DOMAIN byOwner : byOwner[o].arr # loc[p].deps.arr
        /\ \A q \in HoldsListing \ {p} : loc[q].deps.arr # loc[p].deps.arr

C7Step ==
    /\ NoAlias'
    /\ \A p \in HoldsListing \cap HoldsListing' :
        /\ loc'[p].deps = loc[p].deps
        /\ Elems(arrays', loc'[p].deps) = Elems(arrays, loc[p].deps)

(* C7: the slice ListFor returns is a copy: while the caller holds it, no  *)
(* step of any other handler changes its length or its elements, and it    *)
(* shares no backing array with the index, so a write through it cannot    *)
(* reach the index.                                                        *)
C7_DefensiveCopy == [][C7Step]_vars

(* a caller still holds a listing of one deployment after a later Create   *)
(* for the same owner has grown the index                                  *)
C7_Witness ==
    \E p \in HoldsListing :
        /\ loc[p].deps.len = 1
        /\ Len(Listing(req[p].id)) = 2


(* the handlers of the cluster variant that have dispatched and not yet    *)
(* answered                                                                *)
Answering == {p \in Procs : variant = "cluster" /\ pc[p] = "dep_resp"}

ValidDeploymentRequest(r) ==
    r.kind = "POST /deployments" /\ r.decoded /\ r.id # EmptyId /\ r.image # ""

C9Step ==
    \A p \in Procs :
        /\ (/\ variant = "cluster"
            /\ pc[p] = "idle" /\ pc'[p] # "idle"
            /\ ValidDeploymentRequest(req'[p])
            /\ req'[p].id \notin DOMAIN clusters) =>
                /\ pc'[p] = "rejected"
                /\ resp'[p] = [code |-> 404, body |-> "Cluster not found"]
                /\ UNCHANGED <<heap, deployments, arrays, byOwner, dispatch>>
        /\ (pc[p] = "rejected" /\ resp[p].code = 404 /\ pc'[p] # "rejected") =>
                /\ pc'[p] = "idle"
                /\ UNCHANGED <<heap, deployments, arrays, byOwner, dispatch>>

(* C9: in the cluster variant a well-formed POST /api/v1/deployments that  *)
(* names an unregistered cluster is answered 404 "Cluster not found"; the  *)
(* handler leaves the ledger as it is and starts no dispatch.              *)
C9_UnknownCluster == [][C9Step]_vars

(* an unknown cluster is refused while the ledger holds a deployment *)
C9_Witness ==
    \E p \in Procs :
        /\ pc[p] = "rejected" /\ resp[p].code = 404
        /\ req[p].id \notin DOMAIN clusters
        /\ Len(heap) > 0

(* the requests the handlers answer 400 *)
BadRequest(r) ==
    \/ r.kind \in {"POST /agents", "POST /clusters", "POST /heartbeat",
                   "POST /deployments"} /\ ~r.decoded
    \/ r.kind = "POST /agents" /\ r.text = ""
    \/ r.kind = "POST /clusters" /\ (r.text = "" \/ r.kubeconfig = "")
    \/ r.kind = "POST /deployments" /\ (r.id = EmptyId \/ r.image = "")
    \/ r.kind = "GET /deployments" /\ r.id = EmptyId

C10Step ==
    \A p \in Procs :
        /\ (pc[p] = "idle" /\ pc'[p] # "idle" /\ BadRequest(req'[p])) =>
                /\ pc'[p] = "rejected"
                /\ resp'[p].code = 400
        /\ (pc[p] = "idle" /\ pc'[p] = "rejected" /\ resp'[p].code = 400) =>
                /\ BadRequest(req'[p])
                /\ UNCHANGED <<agents, clusters, heap, deployments, arrays, byOwner,
                               dispatch>>
        /\ (pc[p] = "rejected" /\ resp[p].code = 400 /\ pc'[p] # "rejected") =>
                /\ pc'[p] = "idle"
                /\ UNCHANGED <<agents, clusters, heap, deployments, byOwner, dispatch>>
                /\ \A o \in Owners : Listing(o)' = Listing(o)

(* C10: a request with an undecodable body or a missing required field is  *)
(* answered 400, and the handler that answers 400 changes neither the      *)
(* registry nor the ledger and starts no dispatch.                         *)
C10_BadRequest == [][C10Step]_vars

(* a request is answered 400 while the stores hold a target and a          *)
(* deployment                                                              *)
C10_Witness ==
    \E p \in Procs :
        /\ pc[p] = "rejected" /\ resp[p].code = 400
        /\ Targets # {}
        /\ Len(heap) > 0

(* the step changes nothing of the registry but LastSeen and Status of id *)
OnlyHeartbeatFields(id) ==
    /\ DOMAIN agents' = DOMAIN agents
    /\ \A a \in DOMAIN agents \ {id} : agents'[a] = agents[a]
    /\ agents'[id].ID = agents[id].ID
    /\ agents'[id].Address = agents[id].Address

C11Step ==
    \A p \in Procs :
        /\ (pc[p] = "idle" /\ req'[p].kind = "POST /heartbeat" /\ req'[p].decoded) =>
                IF req'[p].id \in DOMAIN agents
                THEN OnlyHeartbeatFields(req'[p].id)
                ELSE /\ agents' = agents
                     /\ pc'[p] = "hb_resp"
                     /\ ~loc'[p].ok
                     /\ HeartbeatResponse(p)' = [code |-> 404, body |-> "Agent not found"]
        /\ (pc[p] = "hb_status" /\ pc'[p] # "hb_status") =>
                /\ OnlyHeartbeatFields(req[p].id)
                /\ loc'[p].ok
        /\ (pc[p] = "hb_resp" /\ pc'[p] # "hb_resp") => agents' = agents

(* C11: a heartbeat for an unregistered id returns false, is answered 404  *)
(* and leaves the agent map as it is; a heartbeat for a registered id      *)
(* changes nothing but that agent's LastSeen and Status.                   *)
C11_HeartbeatFrame == [][C11Step]_vars

(* an unknown id has been refused and a registered agent's heartbeat has   *)
(* been taken, after time has passed, while a second agent is registered   *)
C11_Witness ==
    \E p \in Procs, q \in Procs :
        /\ pc[p] = "hb_resp" /\ ~loc[p].ok /\ req[p].id \notin DOMAIN agents
        /\ pc[q] = "hb_resp" /\ loc[q].ok
        /\ \E a \in DOMAIN agents : agents[a].LastSeen < agents[req[q].id].LastSeen

C12Step ==
    \A p \in Procs :
        /\ (/\ variant = "agent"
            /\ pc[p] = "idle" /\ pc'[p] # "idle"
            /\ ValidDeploymentRequest(req'[p])
            /\ req'[p].id \notin DOMAIN agents) =>
                /\ pc'[p] = "dep_resp"
                /\ CreateResponse(p)'.code = 201
                /\ CreateResponse(p)'.body.Status = "pending"
                /\ CreateResponse(p)'.body.Owner = req'[p].id
                /\ loc'[p].dep \notin DOMAIN heap
                /\ \A o \in TargetIds :
                        o = req'[p].id => Occurrences(Listing(o)', loc'[p].dep) = 1
        /\ (variant = "agent" /\ pc[p] = "idle" /\ pc'[p] = "deps_resp") =>
                \A d \in DOMAIN heap :
                    heap[d].Owner = req'[p].id =>
                        \E i \in 1..loc'[p].deps.len :
                            /\ arrays'[loc'[p].deps.arr][i] = d
                            /\ ListForResponse(p)'.body[i] = heap[d]

(* C12: in the agent variant a well-formed POST /api/v1/deployments for an *)
(* agent_id the registry does not hold is answered 201 with a pending      *)
(* Deployment recorded under that agent_id, and every later listing for    *)
(* that agent_id returns it.                                               *)
C12_NoExistenceCheck == [][C12Step]_vars

(* a listing for an unregistered agent_id returns the pending deployment   *)
(* created for it                                                          *)
C12_Witness ==
    \E p \in Procs :
        /\ variant = "agent"
        /\ pc[p] = "deps_resp"
        /\ req[p].id \notin DOMAIN agents
        /\ loc[p].deps.len = 1
        /\ ListForResponse(p).body[1].Owner = req[p].id
        /\ ListForResponse(p).body[1].Status = "pending"

(* the creation responses carry the fields of the request *)
C13Created ==
    \A p \in Procs :
        /\ pc[p] = "reg_resp" => RegisterResponse(p).body.Address = req[p].text
        /\ pc[p] = "add_resp" =>
                /\ AddResponse(p).body.Name = req[p].text
                /\ AddResponse(p).body.Kubeconfig = req[p].kubeconfig
        /\ pc[p] \in {"dep_go", "dep_resp"} =>
                /\ CreateResponse(p).body.Owner = req[p].id
                /\ CreateResponse(p).body.ImageURL = req[p].image

(* the stored fields never change, and a listing returns every record      *)
(* stored when it is taken                                                 *)
C13Step ==
    /\ \A id \in DOMAIN agents :
        id \in DOMAIN agents' /\ agents'[id].Address = agents[id].Address
    /\ \A id \in DOMAIN clusters :
        /\ id \in DOMAIN clusters'
        /\ clusters'[id].Name = clusters[id].Name
        /\ clusters'[id].Kubeconfig = clusters[id].Kubeconfig
    /\ \A d \in DOMAIN heap :
        /\ d \in DOMAIN heap'
        /\ heap'[d].Owner = heap[d].Owner
        /\ heap'[d].ImageURL = heap[d].ImageURL
    /\ \A p \in Procs :
        /\ (pc[p] # "list_resp" /\ pc'[p] = "list_resp") =>
                /\ loc'[p].list = DOMAIN agents
                /\ \A id \in DOMAIN agents :
                        ListResponse(p)'.body[id].Address = agents[id].Address
        /\ (pc[p] # "cl_resp" /\ pc'[p] = "cl_resp") =>
                /\ loc'[p].list = DOMAIN clusters
                /\ \A id \in DOMAIN clusters :
                        /\ ClustersResponse(p)'.body[id].Name = clusters[id].Name
                        /\ ClustersResponse(p)'.body[id].Kubeconfig = clusters[id].Kubeconfig
        /\ (pc[p] # "deps_resp" /\ pc'[p] = "deps_resp") =>
                \A d \in DOMAIN heap :
                    heap[d].Owner = req'[p].id =>
                        \E i \in 1..loc'[p].deps.len :
                            /\ ListForResponse(p)'.body[i].Owner = heap[d].Owner
                            /\ ListForResponse(p)'.body[i].ImageURL = heap[d].ImageURL
                            /\ ListForResponse(p)'.body[i].ID = heap[d].ID

(* C13: the address, the name and kubeconfig, and the owner id and image   *)
(* of a creation request are the fields of the creation response, stay the *)
(* fields of the stored record through every later step, and are the       *)
(* fields every later listing shows.                                       *)
C13_RoundTrip == [](C13Created) /\ [][C13Step]_vars

(* a cluster listing taken after a deployment was created shows the name   *)
(* and kubeconfig the cluster was registered with, while a creation        *)
(* response for that cluster is being written                              *)
C13_Witness ==
    \E p \in Procs, q \in Procs :
        /\ pc[p] = "cl_resp"
        /\ pc[q] = "dep_resp"
        /\ req[q].id \in loc[p].list
        /\ ClustersResponse(p).body[req[q].id].Name \in Names
        /\ ClustersResponse(p).body[req[q].id].Kubeconfig \in Kubeconfigs

(* C14: a Deployment whose dispatch (deployToK8s) has failed carries the   *)
(* status "failed".                                                        *)
C14_FailedStatus ==
    \A d \in DOMAIN dispatch : dispatch[d].state = "failed" => heap[d].Status = "failed"

(* every dispatch belongs to a Deployment that is in the ledger, and runs  *)
(* with the cluster the request named; a handler about to dispatch has not *)
(* dispatched its Deployment before                                        *)
C15Dispatched ==
    /\ \A d \in DOMAIN dispatch :
        /\ d \in DOMAIN heap
        /\ Occurrences(Listing(heap[d].Owner), d) = 1
        /\ dispatch[d].cluster = heap[d].Owner
        /\ dispatch[d].cluster \in DOMAIN clusters
    /\ \A p \in Procs : pc[p] = "dep_go" =>
        /\ loc[p].dep \notin DOMAIN dispatch
        /\ \A q \in Procs \ {p} : pc[q] = "dep_go" => loc[q].dep # loc[p].dep

(* a dispatch is started by the handler that created the Deployment, runs  *)
(* forward only, and is never started again once it has ended              *)
C15Step ==
    /\ \A d \in DOMAIN dispatch' \ DOMAIN dispatch :
        /\ dispatch'[d].state = "spawned"
        /\ \E p \in Procs : pc[p] = "dep_go" /\ pc'[p] = "dep_resp" /\ loc[p].dep = d
                            /\ dispatch'[d].cluster = req[p].id
    /\ \A d \in DOMAIN dispatch :
        /\ d \in DOMAIN dispatch'
        /\ dispatch'[d].cluster = dispatch[d].cluster
        /\ dispatch[d].state = "spawned" =>
                dispatch'[d].state \in {"spawned", "calling", "failed"}
        /\ dispatch[d].state = "calling" =>
                dispatch'[d].state \in {"calling", "ok", "failed"}
        /\ dispatch[d].state \in {"ok", "failed"} => dispatch'[d] = dispatch[d]

(* C15: deployToK8s is started at most once for a created Deployment, after *)
(* the Deployment is in the ledger, with the cluster resolved for the       *)
(* request, and is not started again after it has failed.                   *)
C15_DispatchOnce == [](C15Dispatched) /\ [][C15Step]_vars

(* the remote create call has failed, the handler has returned, and        *)
(* nothing runs any more for that Deployment                               *)
C15_Witness ==
    /\ \E d \in DOMAIN dispatch :
        dispatch[d].state = "failed" /\ dispatch[d].failedAt = "create"
    /\ \A p \in Procs : pc[p] = "idle"

(* C16 as stated: at the step at which List returns, every agent is        *)
(* "offline" exactly when now - LastSeen > 45 s at that instant.           *)
C16_StatusAtReturn ==
    [][\A p \in Procs :
        (pc[p] = "list_cs" /\ pc'[p] = "list_resp") =>
            \A id \in DOMAIN agents :
                (agents'[id].Status = "offline") <=> (now - agents[id].LastSeen > Window)]_vars

C16Step ==
    \A p \in Procs : pc[p] = "list_cs" =>
        /\ \A id \in loc[p].todo \ loc'[p].todo :
            /\ (agents'[id].Status = "offline") <=> (now - agents[id].LastSeen > Window)
            /\ (agents'[id].Status = "online") <=> (now - agents[id].LastSeen <= Window)
            /\ agents'[id].LastSeen = agents[id].LastSeen
        /\ \A id \in DOMAIN agents \ loc[p].todo : agents'[id] = agents[id]
        /\ DOMAIN agents' = DOMAIN agents
        /\ pc'[p] = "list_resp" => loc[p].todo = {} /\ loc'[p].list = DOMAIN agents

(* C16, amended: List examines every registered agent once while it holds  *)
(* the mutex; after an agent is examined its status is "offline" exactly   *)
(* when, at the instant of that examination, now - LastSeen > 45 s, and    *)
(* "online" otherwise, and it stays so until List returns.                 *)
C16_StatusAtExamination == [][C16Step]_vars

(* List is about to return with an agent last seen exactly 45 s ago shown  *)
(* online                                                                  *)
C16_Witness ==
    \E p \in Procs :
        /\ pc[p] = "list_cs" /\ loc[p].todo = {}
        /\ \E id \in DOMAIN agents :
            now - agents[id].LastSeen = Window /\ agents[id].Status = "online"

(* C17: every record in an owner's index sequence is the record the        *)
(* primary map holds under its id, and every record of the primary map is  *)
(* in exactly one owner's index sequence.                                  *)
C17_MapIndexAgree ==
    /\ \A o \in DOMAIN byOwner :
        \A i \in 1..Len(Listing(o)) :
            LET d == Listing(o)[i] IN
                /\ heap[d].ID \in DOMAIN deployments
                /\ deployments[heap[d].ID] = d
    /\ \A id \in DOMAIN deployments :
        Cardinality({o \in DOMAIN byOwner :
                        Occurrences(Listing(o), deployments[id]) > 0}) = 1

IsPrefix(s, t) == Len(s) <= Len(t) /\ \A i \in 1..Len(s) : s[i] = t[i]

(* what the caller holding a listing sees in it *)
Held(p) == Elems(arrays, loc[p].deps)

(* records are allocated by Create under the ledger mutex, so a larger     *)
(* pointer belongs to a Create that acquired the mutex later               *)
C18Ordered ==
    /\ \A o \in Owners :
        \A i \in 1..Len(Listing(o)), j \in 1..Len(Listing(o)) :
            i < j => Listing(o)[i] < Listing(o)[j]
    /\ \A p \in HoldsListing : IsPrefix(Held(p), Listing(req[p].id))
    /\ \A p \in HoldsListing, q \in HoldsListing :
        req[p].id = req[q].id => IsPrefix(Held(p), Held(q)) \/ IsPrefix(Held(q), Held(p))

C18Step ==
    /\ \A o \in Owners : IsPrefix(Listing(o), Listing(o)')
    /\ \A p \in Procs :
        (pc[p] \notin {"dep_go", "dep_resp"} /\ pc'[p] \in {"dep_go", "dep_resp"}) =>
            \A o \in Owners :
                o = req'[p].id => Listing(o)' = Append(Listing(o), loc'[p].dep)

(* C18: an owner's index sequence only grows at its end: every Create      *)
(* appends its record, in the order in which the Creates held the ledger   *)
(* mutex, nothing is removed or reordered, and of two listings of one      *)
(* owner the earlier is a prefix of the later.                             *)
C18_AppendOnly == [](C18Ordered) /\ [][C18Step]_vars

(* two callers hold listings of the same owner taken at different times,   *)
(* one with one deployment and one with two                                *)
C18_Witness ==
    \E p \in HoldsListing, q \in HoldsListing :
        /\ req[p].id = req[q].id
        /\ Len(Held(p)) = 1
        /\ Len(Held(q)) = 2

C19Step ==
    \A d \in DOMAIN heap :
        /\ d \in DOMAIN heap'
        /\ heap'[d].ID = heap[d].ID
        /\ heap'[d].Owner = heap[d].Owner
        /\ heap'[d].ImageURL = heap[d].ImageURL
        /\ heap'[d].CreatedAt = heap[d].CreatedAt
        /\ heap'[d].Status # heap[d].Status =>
                /\ d \in DOMAIN dispatch
                /\ dispatch[d].state \in {"spawned", "calling"}
                /\ dispatch'[d].state \in {"ok", "failed"}

(* C19: no step of any handler or of the dispatch goroutine changes the    *)
(* id, owner, image or creation time of an existing Deployment; its status *)
(* changes, if at all, only in the step that ends its dispatch.            *)
C19_DeploymentImmutable == [][C19Step]_vars

(* a Deployment created earlier is listed after its dispatch has succeeded *)
C19_Witness ==
    \E p \in HoldsListing, d \in DOMAIN dispatch :
        /\ dispatch[d].state = "ok"
        /\ heap[d].CreatedAt < now
        /\ Occurrences(Held(p), d) = 1

----------------------------------------------------------------------------
(* The store operations statement by statement.  Spec takes a critical     *)
(* section that writes once as one step; SpecLocks takes Lock, each write  *)
(* and the deferred Unlock of the agent variant's stores as steps of their *)
(* own, so that the mutual exclusion itself is what is examined.           *)

MutexIgnored(holder) == TRUE

(* s.Lock(): returns when no goroutine holds the mutex *)
MutexFree(holder) == holder = NoProc

InitLocks == Init /\ variant = "agent"

(* handlers that have entered an operation and not yet called uuid.New() *)
Allocating == {p \in Procs : pc[p] \in {"reg_cs", "create_cs"}}

LockBudget == SumCounts(Prefixes) + Cardinality(Allocating) < MaxUUIDs

(* Register, lines 99-100: s.Lock(); defer s.Unlock() *)
RegisterLock(p) ==
    /\ pc[p] = "idle"
    /\ LockBudget
    /\ MutexFree(regLock)
    /\ regLock' = p
    /\ \E r \in {b \in RegisterBodies : b.decoded /\ b.text # ""} :
        req' = [req EXCEPT ![p] = r]
    /\ pc' = [pc EXCEPT ![p] = "reg_cs"]
    /\ UNCHANGED <<variant, now, uuidCount, agents, clusters, heap, deployments,
                   arrays, byOwner, dispatch, ledLock, loc, resp>>

(* Register, lines 102-111, and the deferred Unlock *)
RegisterStore(p) ==
    /\ pc[p] = "reg_cs"
    /\ agents' = RegisterAgent(NewUUID(TargetPrefix), req[p].text)
    /\ uuidCount' = UUIDIssued(TargetPrefix)
    /\ loc' = [loc EXCEPT ![p].id = NewUUID(TargetPrefix)]
    /\ regLock' = NoProc
    /\ pc' = [pc EXCEPT ![p] = "reg_resp"]
    /\ UNCHANGED <<variant, now, clusters, heap, deployments, arrays, byOwner,
                   dispatch, ledLock, req, resp>>

(* Heartbeat, lines 116-117: s.Lock(); defer s.Unlock() *)
HeartbeatLock(p) ==
    /\ pc[p] = "idle"
    /\ MutexFree(regLock)
    /\ regLock' = p
    /\ \E r \in {b \in HeartbeatBodies : b.decoded} :
        req' = [req EXCEPT ![p] = r]
    /\ pc' = [pc EXCEPT ![p] = "hb_cs"]
    /\ UNCHANGED <<variant, now, uuidCount, agents, clusters, heap, deployments,
                   arrays, byOwner, dispatch, ledLock, loc, resp>>

(* Heartbeat, lines 119-123: the lookup; unknown: return false and the     *)
(* deferred Unlock; known: the LastSeen write                              *)
HeartbeatLookup(p) ==
    /\ pc[p] = "hb_cs"
    /\ IF HeartbeatExists(req[p].id)
       THEN /\ agents' = HeartbeatLastSeen(req[p].id)
            /\ pc' = [pc EXCEPT ![p] = "hb_status"]
            /\ UNCHANGED <<loc, regLock>>
       ELSE /\ loc' = [loc EXCEPT ![p].ok = FALSE]
            /\ regLock' = NoProc
            /\ pc' = [pc EXCEPT ![p] = "hb_resp"]
            /\ UNCHANGED agents
    /\ UNCHANGED <<variant, now, uuidCount, clusters, heap, deployments, arrays,
                   byOwner, dispatch, ledLock, req, resp>>

(* List, lines 131-132: s.Lock(); defer s.Unlock() *)
ListLock(p) ==
    /\ pc[p] = "idle"
    /\ MutexFree(regLock)
    /\ regLock' = p
    /\ loc' = [loc EXCEPT ![p].todo = DOMAIN agents]
    /\ pc' = [pc EXCEPT ![p] = "list_cs"]
    /\ req' = [req EXCEPT ![p] = [NoReq EXCEPT !.kind = "GET /agents"]]
    /\ UNCHANGED <<variant, now, uuidCount, agents, clusters, heap, deployments,
                   arrays, byOwner, dispatch, ledLock, resp>>

(* Create, lines 49-50: s.Lock(); defer s.Unlock() *)
CreateLock(p) ==
    /\ pc[p] = "idle"
    /\ LockBudget
    /\ MutexFree(ledLock)
    /\ ledLock' = p
    /\ \E r \in {b \in DeploymentBodies : b.decoded /\ ~DeploymentInvalid(b)} :
        req' = [req EXCEPT ![p] = r]
    /\ pc' = [pc EXCEPT ![p] = "create_cs"]
    /\ UNCHANGED <<variant, now, uuidCount, agents, clusters, heap, deployments,
                   arrays, byOwner, dispatch, regLock, loc, resp>>

(* Create, lines 52-59: the record, and s.deployments[dep.ID] = dep *)
CreateStore(p) ==
    /\ pc[p] = "create_cs"
    /\ \E pre \in FreshPrefixes :
        /\ heap' = Append(heap, NewDeployment(NewUUID(pre), req[p].id, req[p].image))
        /\ deployments' = StoreDeployment(DepID(NewUUID(pre)), Len(heap) + 1)
        /\ uuidCount' = UUIDIssued(pre)
    /\ loc' = [loc EXCEPT ![p].dep = Len(heap) + 1]
    /\ pc' = [pc EXCEPT ![p] = "append_cs"]
    /\ UNCHANGED <<variant, now, agents, clusters, arrays, byOwner, dispatch,
                   regLock, ledLock, req, resp>>

(* Create, lines 60-63: the append to s.byAgent[agentID], return dep and   *)
(* the deferred Unlock                                                     *)
CreateAppend(p) ==
    /\ pc[p] = "append_cs"
    /\ byOwner' = StoreIndex(req[p].id)
    /\ arrays' = Collect(AppendArrays(req[p].id, loc[p].dep), byOwner', loc)
    /\ ledLock' = NoProc
    /\ pc' = [pc EXCEPT ![p] = IF variant = "cluster" THEN "dep_go" ELSE "dep_resp"]
    /\ UNCHANGED <<variant, now, uuidCount, agents, clusters, heap, deployments,
                   dispatch, regLock, req, loc, resp>>

(* ListForAgent, lines 68-69: s.Lock(); defer s.Unlock() *)
ListForLock(p) ==
    /\ pc[p] = "idle"
    /\ MutexFree(ledLock)
    /\ ledLock' = p
    /\ \E r \in {q \in ListQueries : q.id # EmptyId} :
        req' = [req EXCEPT ![p] = r]
    /\ pc' = [pc EXCEPT ![p] = "make_cs"]
    /\ UNCHANGED <<variant, now, uuidCount, agents, clusters, heap, deployments,
                   arrays, byOwner, dispatch, regLock, loc, resp>>

(* ListForAgent, line 71: deps := make([]*Deployment, len(s.byAgent[id])) *)
ListForMake(p) ==
    /\ pc[p] = "make_cs"
    /\ loc' = [loc EXCEPT ![p].deps = MakeDeps(p, req[p].id)]
    /\ arrays' = Put(arrays, MakeDeps(p, req[p].id).arr,
                     [i \in 1..MakeDeps(p, req[p].id).cap |-> NoDep])
    /\ byOwner' = IndexRead(req[p].id)
    /\ pc' = [pc EXCEPT ![p] = "copy_cs"]
    /\ UNCHANGED <<variant, now, uuidCount, agents, clusters, heap, deployments,
                   dispatch, regLock, ledLock, req, resp>>

(* ListForAgent, lines 72-73: copy(deps, s.byAgent[id]); return deps, and  *)
(* the deferred Unlock                                                     *)
ListForCopy(p) ==
    /\ pc[p] = "copy_cs"
    /\ arrays' = CopyDeps(loc[p].deps, req[p].id)
    /\ byOwner' = IndexRead(req[p].id)
    /\ ledLock' = NoProc
    /\ pc' = [pc EXCEPT ![p] = "deps_resp"]
    /\ UNCHANGED <<variant, now, uuidCount, agents, clusters, heap, deployments,
                   dispatch, regLock, req, loc, resp>>

NextLocks ==
    \/ Tick
    \/ \E p \in Procs :
        \/ RegisterLock(p) \/ RegisterStore(p) \/ RegisterRespond(p)
        \/ HeartbeatLock(p) \/ HeartbeatLookup(p) \/ HeartbeatOnline(p)
        \/ HeartbeatRespond(p)
        \/ ListLock(p) \/ ListMark(p) \/ ListReturn(p) \/ ListRespond(p)
        \/ CreateLock(p) \/ CreateStore(p) \/ CreateAppend(p) \/ CreateRespond(p)
        \/ ListForLock(p) \/ ListForMake(p) \/ ListForCopy(p) \/ ListForRespond(p)

SpecLocks == InitLocks /\ [][NextLocks]_vars

(* the handlers between Lock and Unlock of the registry, and of the ledger *)
InRegistry == {p \in Procs : pc[p] \in {"reg_cs", "hb_cs", "hb_status", "list_cs"}}
InLedger == {p \in Procs : pc[p] \in {"create_cs", "append_cs", "make_cs", "copy_cs"}}

C20Exclusion ==
    /\ Cardinality(InRegistry) <= 1
    /\ Cardinality(InLedger) <= 1
    /\ \A p \in Procs : p \in InRegistry <=> regLock = p
    /\ \A p \in Procs : p \in InLedger <=> ledLock = p

(* the step is one of handler p's own *)
StepOf(p) == pc'[p] # pc[p] \/ loc'[p] # loc[p]

(* a store changes only by a step of the handler that holds its mutex, so  *)
(* the steps of one operation are not interleaved with another's on the    *)
(* same store                                                              *)
C20Step ==
    /\ agents' # agents => regLock \in InRegistry /\ StepOf(regLock)
    /\ (\/ heap' # heap
        \/ deployments' # deployments
        \/ byOwner' # byOwner
        \/ \E o \in Owners : Listing(o)' # Listing(o)) =>
            ledLock \in InLedger /\ StepOf(ledLock)
    /\ \A p \in InLedger :
        pc[p] = "copy_cs" /\ pc'[p] = "deps_resp" =>
            \A o \in Owners : o = req[p].id => Elems(arrays', loc'[p].deps) = Listing(o)

(* C20: at most one operation is inside the critical section of a store at *)
(* any time, and every change of a store is made by the operation holding  *)
(* its mutex: the operations on one store take effect one after another.   *)
C20_Serialized == [](C20Exclusion) /\ [][C20Step]_vars

(* a Create is between its two writes while a Heartbeat is between its two *)
(* writes: both mutexes are held, by different handlers                    *)
C20_Witness ==
    \E p \in Procs, q \in Procs :
        /\ pc[p] = "append_cs" /\ ledLock = p
        /\ pc[q] = "hb_status" /\ regLock = q

----------------------------------------------------------------------------

(* C21: what the caller of List reads for the listed agents does not       *)
(* change once List has returned: while the handler holds the listing, no  *)
(* step changes the last_seen or status it will encode.                    *)
C21_ListingSnapshot ==
    [][\A p \in Procs :
        (pc[p] = "list_resp" /\ pc'[p] = "list_resp") =>
            ListResponse(p)' = ListResponse(p)]_vars

(* the next statement of handler p, once its request has arrived *)
HandlerStep(p) ==
    \/ Rejected(p)
    \/ RegisterRespond(p)
    \/ HeartbeatOnline(p) \/ HeartbeatRespond(p)
    \/ ListMark(p) \/ ListReturn(p) \/ ListRespond(p)
    \/ AddRespond(p) \/ ClustersRespond(p)
    \/ CreateForCluster(p) \/ Go(p) \/ CreateRespond(p)
    \/ ListForRespond(p)

(* every handler goroutine is scheduled again and again; nothing is        *)
(* assumed about deployToK8s, whose remote call may never return           *)
SpecFair == Init /\ [][Next]_vars /\ \A p \in Procs : WF_vars(HandlerStep(p))

(* a held mutex is held by a handler inside a store operation *)
LocksHeldByHandlers ==
    /\ regLock # NoProc => regLock \in Procs /\ pc[regLock] \in {"hb_status", "list_cs"}
    /\ ledLock = NoProc

(* C22: a dispatch that never returns holds no store mutex, and every      *)
(* request in flight, the one that created the deployment included, is     *)
(* answered, and a held mutex is released for the requests to come,        *)
(* whether or not any dispatch ever makes a step.                          *)
C22_DispatchNeverBlocks ==
    /\ [](LocksHeldByHandlers)
    /\ \A p \in Procs : (pc[p] # "idle") ~> (pc[p] = "idle")
    /\ (regLock # NoProc) ~> (regLock = NoProc)

(* the remote call of a dispatch is outstanding while its request has been *)
(* answered and another request is being served                            *)
C22_Witness ==
    \E d \in DOMAIN dispatch, p \in Procs :
        /\ dispatch[d].state = "calling"
        /\ \A q \in Procs : loc[q].dep # d
        /\ pc[p] = "deps_resp"

----------------------------------------------------------------------------
(* The dispatch path of the cluster variant with several deployments in    *)
(* flight.  SpecDispatch bounds the deployments on their own (MaxUUIDs of  *)
(* them, beside the clusters), and leaves out the clock and the listings,  *)
(* which the dispatch goroutine neither reads nor writes.                  *)

InitDispatch == Init /\ variant = "cluster"

(* room for one more Deployment within the bound *)
DeploymentBudget == Len(heap) + Cardinality(Creating) < MaxUUIDs

(* POST /api/v1/deployments, lines 219-234, for a well-formed request that *)
(* names a registered cluster: Decode, the field check and                 *)
(* clusterStore.Get, which finds the cluster                               *)
ResolveCluster(p) ==
    /\ variant = "cluster"
    /\ pc[p] = "idle"
    /\ regLock = NoProc
    /\ DeploymentBudget
    /\ \E r \in DeploymentBodies :
        /\ r.decoded /\ ~DeploymentInvalid(r)
        /\ GetExists(r.id)
        /\ req' = [req EXCEPT ![p] = r]
        /\ loc' = [loc EXCEPT ![p].id = r.id]
    /\ pc' = [pc EXCEPT ![p] = "create"]
    /\ UNCHANGED <<variant, now, uuidCount, agents, clusters, heap, deployments,
                   arrays, byOwner, dispatch, regLock, ledLock, resp>>

NextDispatch ==
    \/ \E p \in Procs :
        \/ PostClusters(p) \/ AddRespond(p) \/ Rejected(p)
        \/ ResolveCluster(p) \/ CreateForCluster(p) \/ Go(p) \/ CreateRespond(p)
    \/ \E d \in DOMAIN dispatch : DeployPrepare(d) \/ DeployCall(d)

SpecDispatch == InitDispatch /\ [][NextDispatch]_vars

(* the dispatches that fail in this step *)
Failing == {d \in DOMAIN dispatch : dispatch[d].state # "failed" /\ dispatch'[d].state = "failed"}

C23Step ==
    /\ Failing # {} =>
        /\ UNCHANGED <<agents, clusters, heap, deployments, arrays, byOwner,
                       regLock, ledLock, pc, req, loc, resp>>
        /\ \A p \in Procs :
            pc[p] \in {"dep_go", "dep_resp"} => CreateResponse(p)' = CreateResponse(p)
        /\ \A d \in DOMAIN dispatch \ Failing : dispatch'[d] = dispatch[d]
    /\ \A d \in DOMAIN dispatch :
        (dispatch[d].state = "spawned" /\ dispatch'[d].state # "spawned") =>
            dispatch'[d].failedAt = PrepareFailure(clusters[dispatch[d].cluster].Kubeconfig)

(* whatever has failed, every other dispatch and every handler can take    *)
(* its next step                                                           *)
C23Running ==
    /\ \A d \in DOMAIN dispatch :
        /\ dispatch[d].state = "spawned" => ENABLED DeployPrepare(d)
        /\ dispatch[d].state = "calling" => ENABLED DeployCall(d)
    /\ \A p \in Procs :
        /\ pc[p] = "create" => ENABLED CreateForCluster(p)
        /\ pc[p] = "dep_go" => ENABLED Go(p)
        /\ pc[p] = "dep_resp" => ENABLED CreateRespond(p)

(* C23: the step in which a dispatch fails changes nothing in the registry *)
(* or the ledger, nothing a handler holds or answers, and no other         *)
(* dispatch; afterwards every other dispatch and every handler goes on,    *)
(* and the outcome of a dispatch's preparation depends on its own cluster  *)
(* only.                                                                   *)
C23_FailureIsolated == [](C23Running) /\ [][C23Step]_vars

(* one dispatch has failed and another, of a different cluster, has        *)
(* succeeded; both requests have been answered                             *)
C23_Witness ==
    /\ \E d1 \in DOMAIN dispatch, d2 \in DOMAIN dispatch :
        /\ dispatch[d1].state = "failed"
        /\ dispatch[d2].state = "ok"
        /\ dispatch[d1].cluster # dispatch[d2].cluster
    /\ \A p \in Procs : pc[p] = "idle"

PrepareSteps == {"decode", "config", "client"}

(* the outcome of a dispatch that has ended is one of: no failure, or the  *)
(* first step of deployToK8s its cluster's kubeconfig does not pass, or    *)
(* the remote call                                                         *)
C24Outcome ==
    \A d \in DOMAIN dispatch :
        LET k == clusters[dispatch[d].cluster].Kubeconfig IN
            /\ dispatch[d].state \in {"spawned", "calling", "ok", "failed"}
            /\ dispatch[d].state \in {"spawned", "calling", "ok"} =>
                    dispatch[d].failedAt = "none"
            /\ dispatch[d].state \in {"calling", "ok"} =>
                    k \in Base64Strings \cap KubeconfigStrings \cap ClientConfigs
            /\ dispatch[d].state = "failed" =>
                    /\ dispatch[d].failedAt \in PrepareSteps \cup {"create"}
                    /\ dispatch[d].failedAt = "decode" <=> k \notin Base64Strings
                    /\ dispatch[d].failedAt = "config" <=>
                            k \in Base64Strings \ KubeconfigStrings
                    /\ dispatch[d].failedAt = "client" <=>
                            k \in (Base64Strings \cap KubeconfigStrings) \ ClientConfigs

C24Step ==
    \A d \in DOMAIN dispatch :
        /\ dispatch'[d].state = "calling" /\ dispatch[d].state # "calling" =>
                dispatch[d].state = "spawned"
        /\ dispatch'[d].state = "failed" /\ dispatch'[d].failedAt \in PrepareSteps =>
                dispatch[d].state \in {"spawned", "failed"}
        /\ dispatch'[d].state = "failed" /\ dispatch'[d].failedAt = "create" =>
                dispatch[d].state \in {"calling", "failed"}
        /\ dispatch'[d].state = "ok" => dispatch[d].state \in {"calling", "ok"}
        /\ dispatch[d].state \in {"ok", "failed"} => dispatch'[d] = dispatch[d]

(* C24: deployToK8s fails at the first of decode, client configuration and *)
(* client construction that its kubeconfig does not pass, and then issues  *)
(* no remote create call; otherwise it issues the call once and fails      *)
(* only if the call does.  A dispatch ends once, with one outcome: failed  *)
(* at one step, or succeeded with no failure.                              *)
C24_FirstFailureStops == [](C24Outcome) /\ [][C24Step]_vars

(* one dispatch has failed at the client construction, before any remote   *)
(* call, and another at the remote call itself                             *)
C24_Witness ==
    \E d1 \in DOMAIN dispatch, d2 \in DOMAIN dispatch :
        /\ dispatch[d1].state = "failed" /\ dispatch[d1].failedAt = "client"
        /\ dispatch[d2].state = "failed" /\ dispatch[d2].failedAt = "create"

----------------------------------------------------------------------------

(* C25: an agent marked "offline" has had no contact for more than 45 s,   *)
(* in every state in which no Heartbeat for it is between its two writes   *)
(* (so in every state in which the registry mutex is free); every status   *)
(* is "online" or "offline".                                               *)
C25_OfflineIsStale ==
    \A id \in DOMAIN agents :
        /\ agents[id].Status \in {"online", "offline"}
        /\ (agents[id].Status = "offline" /\ ~MidHeartbeat(id)) =>
                now - agents[id].LastSeen > Window

(* with the mutex free, one agent is offline and another, which has sent a *)
(* heartbeat after the window had passed, is online                        *)
C25_Witness ==
    /\ regLock = NoProc
    /\ \E a \in DOMAIN agents, b \in DOMAIN agents :
        /\ agents[a].Status = "offline"
        /\ agents[b].Status = "online" /\ agents[b].LastSeen > Window

(* C26: in the cluster variant every Deployment of the ledger names a      *)
(* cluster that is in the registry, and so does every request that has     *)
(* passed the existence check and not yet reached Create.                  *)
C26_ReferentialIntegrity ==
    variant = "cluster" =>
        /\ \A d \in DOMAIN heap : heap[d].Owner \in DOMAIN clusters
        /\ \A o \in DOMAIN byOwner : o \in DOMAIN clusters
        /\ \A p \in Creating : req[p].id \in DOMAIN clusters

(* a request has passed the existence check for one cluster and waits for  *)
(* the ledger, which already holds a Deployment of another cluster         *)
C26_Witness ==
    \E p \in Creating, d \in DOMAIN heap :
        /\ variant = "cluster"
        /\ heap[d].Owner # req[p].id
        /\ Cardinality(DOMAIN clusters) = 2

----------------------------------------------------------------------------
(* Both variants with every store operation split at its Lock and its      *)
(* Unlock, for the properties of the two mutexes together.                 *)

(* requests that have been accepted and have not yet stored their target   *)
(* or their Deployment                                                     *)
Adding == {p \in Procs : pc[p] = "add_cs"}
Resolving == {p \in Procs : pc[p] \in {"get_cs", "create", "create_cs"}}

(* room for one more uuid.New() within the bound *)
MutexBudget ==
    SumCounts(Prefixes) + Cardinality(Adding) + Cardinality(Resolving) < MaxUUIDs

(* Add, lines 101-102: s.Lock(); defer s.Unlock() *)
AddLock(p) ==
    /\ variant = "cluster"
    /\ pc[p] = "idle"
    /\ MutexBudget
    /\ MutexFree(regLock)
    /\ regLock' = p
    /\ \E r \in {b \in AddBodies : b.decoded /\ b.text # "" /\ b.kubeconfig # ""} :
        req' = [req EXCEPT ![p] = r]
    /\ pc' = [pc EXCEPT ![p] = "add_cs"]
    /\ UNCHANGED <<variant, now, uuidCount, agents, clusters, heap, deployments,
                   arrays, byOwner, dispatch, ledLock, loc, resp>>

(* Add, lines 104-112, and the deferred Unlock *)
AddStore(p) ==
    /\ pc[p] = "add_cs"
    /\ clusters' = AddCluster(NewUUID(TargetPrefix), req[p].text, req[p].kubeconfig)
    /\ uuidCount' = UUIDIssued(TargetPrefix)
    /\ loc' = [loc EXCEPT ![p].id = NewUUID(TargetPrefix)]
    /\ regLock' = NoProc
    /\ pc' = [pc EXCEPT ![p] = "add_resp"]
    /\ UNCHANGED <<variant, now, agents, heap, deployments, arrays, byOwner,
                   dispatch, ledLock, req, resp>>

(* POST /api/v1/deployments, lines 219-230, for a well-formed request;     *)
(* Get, lines 117-118: s.Lock(); defer s.Unlock()                          *)
GetLock(p) ==
    /\ variant = "cluster"
    /\ pc[p] = "idle"
    /\ MutexBudget
    /\ MutexFree(regLock)
    /\ regLock' = p
    /\ \E r \in {b \in DeploymentBodies : b.decoded /\ ~DeploymentInvalid(b)} :
        req' = [req EXCEPT ![p] = r]
    /\ pc' = [pc EXCEPT ![p] = "get_cs"]
    /\ UNCHANGED <<variant, now, uuidCount, agents, clusters, heap, deployments,
                   arrays, byOwner, dispatch, ledLock, loc, resp>>

GetLookupHolding(p) ==
    /\ pc[p] = "get_cs"
    /\ IF GetExists(req[p].id)
       THEN /\ pc' = [pc EXCEPT ![p] = "create"]
            /\ loc' = [loc EXCEPT ![p].id = req[p].id]
            /\ UNCHANGED <<resp, regLock>>
       ELSE /\ pc' = [pc EXCEPT ![p] = "rejected"]
            /\ resp' = [resp EXCEPT ![p] = ErrorResp(404, "Cluster not found")]
            /\ regLock' = NoProc
            /\ UNCHANGED loc
    /\ UNCHANGED <<variant, now, uuidCount, agents, clusters, heap, deployments,
                   arrays, byOwner, dispatch, ledLock, req>>

(* Get, lines 119-120: the lookup, return and the deferred Unlock; the     *)
(* handler, lines 231-234: 404 when the cluster is not found               *)
GetLookup(p) ==
    /\ pc[p] = "get_cs"
    /\ regLock' = NoProc
    /\ IF GetExists(req[p].id)
       THEN /\ pc' = [pc EXCEPT ![p] = "create"]
            /\ loc' = [loc EXCEPT ![p].id = req[p].id]
            /\ UNCHANGED resp
       ELSE /\ pc' = [pc EXCEPT ![p] = "rejected"]
            /\ resp' = [resp EXCEPT ![p] = ErrorResp(404, "Cluster not found")]
            /\ UNCHANGED loc
    /\ UNCHANGED <<variant, now, uuidCount, agents, clusters, heap, deployments,
                   arrays, byOwner, dispatch, ledLock, req>>

(* POST /api/v1/deployments, line 236; Create, lines 53-54: s.Lock();      *)
(* defer s.Unlock(), which waits while another goroutine holds the mutex   *)
ClusterCreateLock(p) ==
    /\ pc[p] = "create"
    /\ MutexFree(ledLock)
    /\ ledLock' = p
    /\ pc' = [pc EXCEPT ![p] = "create_cs"]
    /\ UNCHANGED <<variant, now, uuidCount, agents, clusters, heap, deployments,
                   arrays, byOwner, dispatch, regLock, req, loc, resp>>

(* List, lines 125-126: s.Lock(); defer s.Unlock() *)
ClustersLock(p) ==
    /\ variant = "cluster"
    /\ pc[p] = "idle"
    /\ MutexFree(regLock)
    /\ regLock' = p
    /\ req' = [req EXCEPT ![p] = [NoReq EXCEPT !.kind = "GET /clusters"]]
    /\ pc' = [pc EXCEPT ![p] = "cl_cs"]
    /\ UNCHANGED <<variant, now, uuidCount, agents, clusters, heap, deployments,
                   arrays, byOwner, dispatch, ledLock, loc, resp>>

(* List, lines 127-131: the collected list, return and the deferred Unlock *)
ClustersCollect(p) ==
    /\ pc[p] = "cl_cs"
    /\ loc' = [loc EXCEPT ![p].list = DOMAIN clusters]
    /\ regLock' = NoProc
    /\ pc' = [pc EXCEPT ![p] = "cl_resp"]
    /\ UNCHANGED <<variant, now, uuidCount, agents, clusters, heap, deployments,
                   arrays, byOwner, dispatch, ledLock, req, resp>>

(* a request arrives at a handler of the agent variant and enters its      *)
(* store operation                                                         *)
AgentEnter(p) ==
    /\ variant = "agent"
    /\ RegisterLock(p) \/ HeartbeatLock(p) \/ ListLock(p) \/ CreateLock(p)

(* a request arrives at a handler of the cluster variant and enters its    *)
(* first store operation                                                   *)
ClusterEnter(p) == AddLock(p) \/ GetLock(p) \/ ClustersLock(p)

(* the next statement of handler p after its request has entered a store   *)
(* operation                                                               *)
Continue(p) ==
    \/ Rejected(p)
    \/ RegisterStore(p) \/ RegisterRespond(p)
    \/ HeartbeatLookup(p) \/ HeartbeatOnline(p) \/ HeartbeatRespond(p)
    \/ ListMark(p) \/ ListReturn(p) \/ ListRespond(p)
    \/ AddStore(p) \/ AddRespond(p)
    \/ ClustersCollect(p) \/ ClustersRespond(p)
    \/ GetLookup(p) \/ ClusterCreateLock(p)
    \/ CreateStore(p) \/ CreateAppend(p) \/ Go(p) \/ CreateRespond(p)
    \/ ListForMake(p) \/ ListForCopy(p) \/ ListForRespond(p)

NextMutex ==
    \/ variant = "agent" /\ Tick
    \/ \E p \in Procs : AgentEnter(p) \/ ClusterEnter(p) \/ ListForLock(p) \/ Continue(p)
    \/ \E d \in DOMAIN dispatch : DeployPrepare(d) \/ DeployCall(d)

(* every handler goroutine is scheduled again and again, and a goroutine   *)
(* waiting in Lock() gets the mutex if it is released again and again;     *)
(* nothing is assumed about the dispatch goroutines                        *)
SpecMutex == Init /\ [][NextMutex]_vars /\ \A p \in Procs : SF_vars(Continue(p))

(* the handlers between Lock and Unlock of the registry, and of the ledger *)
RegistrySections == {"reg_cs", "hb_cs", "hb_status", "list_cs", "add_cs", "get_cs", "cl_cs"}
LedgerSections == {"create_cs", "append_cs", "make_cs", "copy_cs"}

C27NoNesting ==
    /\ regLock # NoProc => regLock \in Procs /\ pc[regLock] \in RegistrySections
    /\ ledLock # NoProc => ledLock \in Procs /\ pc[ledLock] \in LedgerSections
    /\ \A p \in Procs : ~(regLock = p /\ ledLock = p)

(* C27: no handler holds the two mutexes together and no dispatch          *)
(* goroutine holds one; a held mutex is released, and every request that   *)
(* has entered a store operation, or waits for the ledger after the        *)
(* registry, is answered, whatever the dispatch goroutines do.             *)
C27_NoDeadlock ==
    /\ [](C27NoNesting)
    /\ \A p \in Procs : (pc[p] # "idle") ~> (pc[p] = "idle")
    /\ (regLock # NoProc) ~> (regLock = NoProc)
    /\ (ledLock # NoProc) ~> (ledLock = NoProc)

(* one handler is inside ListForCluster with the ledger's mutex and        *)
(* another inside the registry's List with the registry's, while the       *)
(* remote call of a dispatch is outstanding                                *)
C27_Witness ==
    \E p \in Procs, q \in Procs, d \in DOMAIN dispatch :
        /\ variant = "cluster"
        /\ pc[p] = "copy_cs" /\ ledLock = p
        /\ pc[q] = "cl_cs" /\ regLock = q
        /\ dispatch[d].state = "calling"

====
